---- MODULE Spec2Model ----
(***************************************************************************)
(* Model of tools/platformio-build.py (arduino-pico PlatformIO build       *)
(* script): the size-expression parser, the flash/filesystem partition     *)
(* calculator, the USB configuration step and the linker-script command.   *)
(*                                                                         *)
(* Strings that the script inspects character by character (the           *)
(* filesystem size expression, the substituted numbers) are sequences of   *)
(* one-character strings.  Python dictionaries (board, env) are functions  *)
(* whose DOMAIN is the set of keys present.                                *)
(***************************************************************************)
EXTENDS Integers, Sequences, FiniteSets, TLC

VARIABLES
    pc,               \* position of the script / of the direct call
    manifest,         \* the board definition as loaded (never written)
    board,            \* env.BoardConfig(): key -> value
    ram_size,         \* module global ram_size (line 22, 137)
    upload_protocol,  \* module global upload_protocol (line 21)
    cpp_defines,      \* flattened CPPDEFINES seen at line 159
    env,              \* SCons construction environment: key -> value
    linkerscript_cmd, \* the command prepared at lines 230-244
    depends,          \* TRUE once the ELF depends on linkerscript_cmd
    ldfile,           \* substitutions made when the command has executed
    out,              \* what was written to stdout / stderr, in order
    exit_code,        \* process exit status (0 while running normally)
    calls,            \* number of calls of populate_sketch_partition_info
    expression,       \* argument of the last convert_size_expression_to_int
    result            \* outcome of the last convert_size_expression_to_int

vars == <<pc, manifest, board, ram_size, upload_protocol, cpp_defines, env,
          linkerscript_cmd, depends, ldfile, out, exit_code, calls,
          expression, result>>

\* ------------------------------------------------------------------ bounds

\* longest size expression handed directly to the parser
MaxLen == 4

\* number of calls of the partition calculator in the repeated-call harness
MaxCalls == 2

\* --------------------------------------------------------------- constants

BASE == 268435456

RESERVED == 4096

PICODEBUG_RAM == 245760

\* -------------------------------------------------------- character helpers

Digits == {"0", "1", "2", "3", "4", "5", "6", "7", "8", "9"}

UnitChars == {"m", "k", "b", "M", "K", "B"}

DigitVal(c) ==
    CASE c = "0" -> 0 [] c = "1" -> 1 [] c = "2" -> 2 [] c = "3" -> 3
      [] c = "4" -> 4 [] c = "5" -> 5 [] c = "6" -> 6 [] c = "7" -> 7
      [] c = "8" -> 8 [] c = "9" -> 9

DigitChar(d) ==
    CASE d = 0 -> "0" [] d = 1 -> "1" [] d = 2 -> "2" [] d = 3 -> "3"
      [] d = 4 -> "4" [] d = 5 -> "5" [] d = 6 -> "6" [] d = 7 -> "7"
      [] d = 8 -> "8" [] d = 9 -> "9"

RECURSIVE Pow10(_)
Pow10(n) == IF n = 0 THEN 1 ELSE 10 * Pow10(n - 1)

\* "%d" of a non-negative integer
RECURSIVE FormatD(_)
FormatD(n) ==
    IF n < 10 THEN <<DigitChar(n)>>
    ELSE Append(FormatD(n \div 10), DigitChar(n % 10))

\* str.upper() on the characters the regex lets through
upper(s) ==
    [i \in 1..Len(s) |->
        CASE s[i] = "m" -> "M" [] s[i] = "k" -> "K" [] s[i] = "b" -> "B"
          [] OTHER -> s[i]]

\* ------------------------------------------- convert_size_expression_to_int

conversion_factors ==
    (<<"M">> :> 1024 * 1024) @@ (<<"M", "B">> :> 1024 * 1024) @@
    (<<"K">> :> 1024) @@ (<<"K", "B">> :> 1024) @@
    (<<"B">> :> 1) @@ (<<>> :> 1)

\* where the regex's "$" can stand: at the end of the string, or just
\* before a newline that ends it
MatchEnd(s) ==
    IF Len(s) > 0 /\ s[Len(s)] = "\n" THEN Len(s) - 1 ELSE Len(s)

\* length of group 2, ([mkbMKB]*): group 1 ends in a digit, so group 2 is
\* the longest run of unit letters that ends at MatchEnd
FactorLen(s) ==
    LET e == MatchEnd(s)
    IN  CHOOSE n \in 0..e :
            /\ \A i \in (e - n + 1)..e : s[i] \in UnitChars
            /\ (n = e \/ s[e - n] \notin UnitChars)

\* group 1, ((?:[0-9]*[.])?[0-9]+)
IsNumberText(t) ==
    /\ Len(t) >= 1
    /\ t[Len(t)] \in Digits
    /\ \A i \in 1..Len(t) : t[i] \in Digits \cup {"."}
    /\ Cardinality({i \in 1..Len(t) : t[i] = "."}) <= 1

\* re.findall(extract_regex, expression): no match, or one (number, factor)
findall(s) ==
    LET e == MatchEnd(s)
        n == FactorLen(s)
        number == SubSeq(s, 1, e - n)
        factor == SubSeq(s, e - n + 1, e)
    IN  IF IsNumberText(number) THEN << <<number, factor>> >> ELSE <<>>

RECURSIVE DigitsValue(_)
DigitsValue(t) ==
    IF Len(t) = 0 THEN 0
    ELSE 10 * DigitsValue(SubSeq(t, 1, Len(t) - 1)) + DigitVal(t[Len(t)])

\* float(number) as the exact fraction num / den.  The factors are powers of
\* two, so the product is exact, and for the short numbers used here the
\* double nearest to num / den truncates to the same integer.
float(number) ==
    LET dots == {i \in 1..Len(number) : number[i] = "."}
        p == IF dots = {} THEN Len(number) + 1 ELSE CHOOSE i \in dots : TRUE
        ip == SubSeq(number, 1, p - 1)
        fp == SubSeq(number, p + 1, Len(number))
    IN  [num |-> DigitsValue(ip) * Pow10(Len(fp)) + DigitsValue(fp),
         den |-> Pow10(Len(fp))]

\* int(float(number) * factor) computed the wrong way round
ScaledTruncFirst(number, mult) == (float(number).num \div float(number).den) * mult

\* lines 186-188: number = float(number); number *= factor; int(number)
Scaled(number, mult) == (float(number).num * mult) \div float(number).den

ParseErrorEvent(s) ==
    [stream |-> "stderr", text |-> "could_not_parse", args |-> s]

\* outcome of the call: kind "return" (value, what it wrote) or "KeyError"
convert_size_expression_to_int(s) ==
    LET res == findall(s)
    IN  IF Len(res) = 0
        THEN [kind |-> "return", value |-> 0, wrote |-> <<ParseErrorEvent(s)>>]
        ELSE LET number == res[1][1]
                 factor == upper(res[1][2])
             IN  IF factor \in DOMAIN conversion_factors
                 THEN [kind |-> "return",
                       value |-> Scaled(number, conversion_factors[factor]),
                       wrote |-> <<>>]
                 ELSE [kind |-> "KeyError", value |-> 0, wrote |-> <<>>]

NoResult == [kind |-> "none", value |-> 0, wrote |-> <<>>]
\* ------------------------------------------------------------ dictionaries

\* dict.get(key, default) / board.get(key, default)
Get(d, key, default) == IF key \in DOMAIN d THEN d[key] ELSE default

\* board.update(key, value) / env[key] = value
Put(d, key, value) == (key :> value) @@ d

\* ------------------------------------------------------ configure_usb_flags

\* lines 130-137: VID/PID/RAM chosen by the upload protocol
UsbChoice(protocol, usb_vid, usb_pid, ram) ==
    IF protocol = "picoprobe"
    THEN [vid |-> usb_vid, pid |-> "0x0004", ram |-> ram]
    ELSE IF protocol = "picodebug"
    THEN [vid |-> "0x1209", pid |-> "0x2488", ram |-> PICODEBUG_RAM]
    ELSE [vid |-> usb_vid, pid |-> usb_pid, ram |-> ram]

\* lines 150-153 without line 154
BoardAfterUsbNoRam(b, vid, pid, ram) == Put(b, "build.hwids", <<vid, pid>>)

\* lines 150-154: board.update of build.hwids and upload.maximum_ram_size
BoardAfterUsb(b, vid, pid, ram) ==
    Put(Put(b, "build.hwids", <<vid, pid>>), "upload.maximum_ram_size", ram)

\* the whole function: the new board, ram_size and env
configure_usb_flags(defines, protocol, b, ram, e) ==
    IF "USE_TINYUSB" \notin defines /\ "PIO_FRAMEWORK_ARDUINO_NO_USB" \in defines
    THEN [board |-> b,
          ram_size |-> ram,
          env |-> Put(Put(e, "CPPPATH", Append(e["CPPPATH"], "tools/libpico")),
                      "CPPDEFINES",
                      e["CPPDEFINES"] \o <<"NO_USB", "DISABLE_USB_SERIAL">>)]
    ELSE LET path == IF "USE_TINYUSB" \in defines
                     THEN "libraries/Adafruit_TinyUSB_Arduino/src/arduino"
                     ELSE "tools/libpico"
             hwids == Get(b, "build.hwids", <<"0", "0">>)
             usb_pid == Get(b, "build.arduino.earlephilhower.usb_pid", hwids[2])
             usb_vid == Get(b, "build.arduino.earlephilhower.usb_vid", hwids[1])
             c == UsbChoice(protocol, usb_vid, usb_pid, ram)
         IN  [board |-> BoardAfterUsb(b, c.vid, c.pid, c.ram),
              ram_size |-> c.ram,
              env |-> Put(Put(e, "CPPPATH", Append(e["CPPPATH"], path)),
                          "CPPDEFINES",
                          e["CPPDEFINES"] \o
                            <<"CFG_TUSB_MCU", "USB_VID", "USB_PID",
                              "USB_MANUFACTURER", "USB_PRODUCT",
                              "SERIALUSB_PID">>)]

\* ------------------------------------------- populate_sketch_partition_info

\* the calculation with the reserved page forgotten
MaximumSizeNoReserve(flash_size, fs_int) == flash_size - fs_int

\* line 199
MaximumSize(flash_size, fs_int) == flash_size - RESERVED - fs_int

\* line 206
EepromStart(flash_size) == BASE + flash_size - RESERVED

\* the filesystem start with the reserved page forgotten
FsStartNoReserve(flash_size, fs_int) == BASE + flash_size - fs_int

\* line 207
FsStart(flash_size, fs_int) == BASE + flash_size - RESERVED - fs_int

\* line 208
FsEnd(flash_size) == BASE + flash_size - RESERVED

\* the validation with the boundary case let through
TooLargeStrict(maximum_size) == maximum_size < 0

\* line 210
TooLarge(maximum_size) == maximum_size <= 0

\* the board left as it was read
BoardKept(b, maximum_size) == b

\* line 219
BoardAfterPopulate(b, maximum_size) == Put(b, "upload.maximum_size", maximum_size)

Event(stream, text, args) == [stream |-> stream, text |-> text, args |-> args]

\* the sizes printed only once the validation has passed
PopulateWroteOnSuccessOnly(too_large, flash_size, maximum_size, fs_int, layout) ==
    IF too_large
    THEN <<Event("stderr", "filesystem_too_large", <<maximum_size>>)>>
    ELSE <<Event("stdout", "flash_size_mb", <<flash_size>>),
           Event("stdout", "sketch_size_mb", <<maximum_size>>),
           Event("stdout", "filesystem_size_mb", <<fs_int>>),
           Event("stdout", "layout", layout)>>

\* lines 201-203, then 211-216 or 225-228, in the order they are written
PopulateWrote(too_large, flash_size, maximum_size, fs_int, layout) ==
    <<Event("stdout", "flash_size_mb", <<flash_size>>),
      Event("stdout", "sketch_size_mb", <<maximum_size>>),
      Event("stdout", "filesystem_size_mb", <<fs_int>>)>>
    \o (IF too_large
        THEN <<Event("stderr", "filesystem_too_large", <<maximum_size>>)>>
        ELSE <<Event("stdout", "layout", layout)>>)

\* the layout published before the validation, so also when it fails
PopulateLayoutPublishFirst(b, e, filesystem_size, r) ==
    LET flash_size == b["upload.maximum_size"]
        maximum_size == MaximumSize(flash_size, r.value)
        layout == <<maximum_size, maximum_size, EepromStart(flash_size),
                    FsStart(flash_size, r.value), FsEnd(flash_size)>>
    IN  [ending |-> IF TooLarge(maximum_size) THEN "exit" ELSE "returned",
         board |-> BoardAfterPopulate(b, maximum_size),
         env |-> Put(Put(Put(Put(e,
                     "PICO_FLASH_LENGTH", layout[2]),
                     "PICO_EEPROM_START", layout[3]),
                     "PICO_FS_START", layout[4]),
                     "PICO_FS_END", layout[5]),
         wrote |-> r.wrote \o PopulateWrote(TooLarge(maximum_size), flash_size,
                                            maximum_size, r.value, layout),
         expression |-> filesystem_size, result |-> r]

\* lines 199-228, once the parser has returned r for filesystem_size
PopulateLayout(b, e, filesystem_size, r) ==
    LET flash_size == b["upload.maximum_size"]
        filesystem_size_int == r.value
        maximum_size == MaximumSize(flash_size, filesystem_size_int)
        flash_length == maximum_size
        eeprom_start == EepromStart(flash_size)
        fs_start == FsStart(flash_size, filesystem_size_int)
        fs_end == FsEnd(flash_size)
        too_large == TooLarge(maximum_size)
        wrote == r.wrote \o
                 PopulateWrote(too_large, flash_size, maximum_size,
                               filesystem_size_int,
                               <<maximum_size, flash_length, eeprom_start,
                                 fs_start, fs_end>>)
    IN  IF too_large
        THEN [ending |-> "exit", board |-> b, env |-> e, wrote |-> wrote,
              expression |-> filesystem_size, result |-> r]
        ELSE [ending |-> "returned",
              board |-> BoardAfterPopulate(b, maximum_size),
              env |-> Put(Put(Put(Put(e,
                          "PICO_FLASH_LENGTH", flash_length),
                          "PICO_EEPROM_START", eeprom_start),
                          "PICO_FS_START", fs_start),
                          "PICO_FS_END", fs_end),
              wrote |-> wrote,
              expression |-> filesystem_size, result |-> r]

\* lines 196-197 and the rest: a KeyError of the parser leaves the function
PopulateParsed(b, e, filesystem_size, r) ==
    IF r.kind = "KeyError"
    THEN [ending |-> "raised", board |-> b, env |-> e, wrote |-> r.wrote,
          expression |-> filesystem_size, result |-> r]
    ELSE PopulateLayout(b, e, filesystem_size, r)

PopulateRead(b, e, filesystem_size) ==
    PopulateParsed(b, e, filesystem_size,
                   convert_size_expression_to_int(filesystem_size))

\* the whole function from board b and environment e: how it ended
\* ("returned", "exit" by env.Exit(-1), "raised" by the parser's KeyError),
\* the board and env it leaves, what it wrote, and the parser call it made
populate_sketch_partition_info(b, e) ==
    PopulateRead(b, e, Get(b, "build.filesystem_size", <<"0", "M", "B">>))

\* env.Exit(-1) as the status the operating system reports
ExitStatus(n) == n % 256

\* --------------------------------------------------------- linkerscript_cmd

\* line 242: "%dk" % (ram_size // 1024)
RamLength(ram) == FormatD(ram \div 1024) \o <<"k">>

\* "$NAME" in a command line: the variable's value as text, empty if unset
Subst(e, name) == IF name \in DOMAIN e THEN FormatD(e[name]) ELSE <<>>

\* line 247 with the test dropped
UseDefaultLdscriptAlways(b) == TRUE

\* line 247: not board.get("build.ldscript", "")
UseDefaultLdscript(b) == Get(b, "build.ldscript", "") = ""
\* ------------------------------------------------------------------ inputs

\* upload.maximum_size of the board: total flash in bytes
FlashSizes == {4096, 1052672, 2097152, 16777216}

\* upload.maximum_ram_size of the board
RamSizes == {270336, 270000}

\* $UPLOAD_PROTOCOL or "picotool"
Protocols == {"picotool", "picoprobe", "picodebug"}

\* the defines the script appended itself (lines 56-61)
ScriptDefines == {"ARDUINO", "ARDUINO_ARCH_RP2040", "F_CPU", "BOARD_NAME"}

\* the USB selection a project's build flags can add
UsbDefines == SUBSET {"USE_TINYUSB", "PIO_FRAMEWORK_ARDUINO_NO_USB"}

\* build.filesystem_size settings of a project
FsExprs ==
    { <<"0", "M", "B">>, <<"1", "M", "B">>, <<"2", "M", "B">>,
      <<"1", ".", "5", "M", "B">>, <<"5", "1", "2", "K">>,
      <<"1", "6", "m", "b">>, <<".", "5", "m">>, <<"4", "0", "9", "6">>,
      <<>>, <<"g", "a", "r", "b", "a", "g", "e">>, <<"2", "B", "K">> }

\* build.ldscript settings of a board
LdScripts == {"", "custom.ld"}

\* characters of the expressions handed directly to the parser
ParseAlphabet == {"0", "1", ".", "M", "K", "B", "m", "k", "b", "-"}

ParseInputs == UNION {[1..n -> ParseAlphabet] : n \in 0..MaxLen}

BaseBoard(flash, ram) ==
    [x \in {"upload.maximum_size", "upload.maximum_ram_size", "build.hwids"} |->
        CASE x = "upload.maximum_size" -> flash
          [] x = "upload.maximum_ram_size" -> ram
          [] x = "build.hwids" -> <<"0x2E8A", "0x00C0">>]

\* lines 32-93: what the script has put into env before line 96
InitialEnv ==
    [x \in {"CPPPATH", "CPPDEFINES"} |->
        IF x = "CPPPATH"
        THEN <<"cores/rp2040", "cores/rp2040/api/deprecated",
               "cores/rp2040/api/deprecated-avr-comp">>
        ELSE <<"ARDUINO", "ARDUINO_ARCH_RP2040", "F_CPU", "BOARD_NAME">>]

NoCmd == [defined |-> FALSE, ram_length |-> <<>>]

NoFile == [written |-> FALSE, subs |-> <<>>]

\* the state on reaching line 161, for every board and project configuration
Init ==
    /\ pc = "start"
    /\ \E flash \in FlashSizes, ram \in RamSizes :
        \E fs \in {<<>>} \cup {<<x>> : x \in FsExprs},
           ld \in {<<>>} \cup {<<x>> : x \in LdScripts} :
            manifest =
                [x \in {"build.filesystem_size" : i \in 1..Len(fs)} |-> fs[1]]
                @@ [x \in {"build.ldscript" : i \in 1..Len(ld)} |-> ld[1]]
                @@ BaseBoard(flash, ram)
    /\ board = manifest
    /\ ram_size = manifest["upload.maximum_ram_size"]
    /\ upload_protocol \in Protocols
    /\ \E u \in UsbDefines : cpp_defines = ScriptDefines \cup u
    /\ env = InitialEnv
    /\ linkerscript_cmd = NoCmd
    /\ depends = FALSE
    /\ ldfile = NoFile
    /\ out = <<>>
    /\ exit_code = 0
    /\ calls = 0
    /\ expression = <<>>
    /\ result = NoResult

\* line 161
ConfigureUsbFlags ==
    /\ pc = "start"
    /\ \E r \in {configure_usb_flags(cpp_defines, upload_protocol, board,
                                      ram_size, env)} :
           /\ board' = r.board
           /\ ram_size' = r.ram_size
           /\ env' = r.env
    /\ pc' = "usb_configured"
    /\ UNCHANGED <<manifest, upload_protocol, cpp_defines, linkerscript_cmd,
                   depends, ldfile, out, exit_code, calls, expression, result>>

\* lines 230-244: the command is prepared; its text holds the RAM length
\* already formatted and the four $PICO_... variables still unexpanded
PrepareLinkerscriptCmd ==
    /\ pc = "usb_configured"
    /\ linkerscript_cmd' = [defined |-> TRUE, ram_length |-> RamLength(ram_size)]
    /\ pc' = "cmd_prepared"
    /\ UNCHANGED <<manifest, board, ram_size, upload_protocol, cpp_defines, env,
                   depends, ldfile, out, exit_code, calls, expression, result>>

\* the effect of one call of populate_sketch_partition_info on the state
\* the call shares with its caller
PopulateCall(b) ==
    \E r \in {populate_sketch_partition_info(b, env)} :
        /\ calls' = calls + 1
        /\ board' = r.board
        /\ out' = out \o r.wrote
        /\ expression' = r.expression
        /\ result' = r.result
        /\ IF r.ending = "returned"
           THEN /\ env' = Put(r.env, "LDSCRIPT_PATH", "$BUILD_DIR/memmap_default.ld")
                /\ depends' = TRUE
                /\ pc' = "done"
                /\ UNCHANGED exit_code
           ELSE /\ env' = r.env
                /\ UNCHANGED depends
                /\ pc' = IF r.ending = "exit" THEN "fatal" ELSE "crashed"
                /\ exit_code' = IF r.ending = "exit" THEN ExitStatus(-1) ELSE 2

\* lines 247-250 (the rest of the script, lines 252-291, registers libraries
\* and touches none of this state)
SelectLinkerScript ==
    /\ pc = "cmd_prepared"
    /\ IF UseDefaultLdscript(board)
       THEN PopulateCall(board)
       ELSE /\ pc' = "done"
            /\ UNCHANGED <<board, env, depends, out, exit_code, calls,
                           expression, result>>
    /\ UNCHANGED <<manifest, ram_size, upload_protocol, cpp_defines,
                   linkerscript_cmd, ldfile>>

\* the build runs linkerscript_cmd when the ELF depends on it: simplesub.py
\* substitutes the placeholders with the expanded command line
GenerateLinkerScript ==
    /\ pc = "done"
    /\ depends
    /\ linkerscript_cmd.defined
    /\ ldfile' = [written |-> TRUE,
                  subs |-> [x \in {"__FLASH_LENGTH__", "__EEPROM_START__",
                                   "__FS_START__", "__FS_END__", "__RAM_LENGTH__"} |->
                      CASE x = "__FLASH_LENGTH__" -> Subst(env, "PICO_FLASH_LENGTH")
                        [] x = "__EEPROM_START__" -> Subst(env, "PICO_EEPROM_START")
                        [] x = "__FS_START__" -> Subst(env, "PICO_FS_START")
                        [] x = "__FS_END__" -> Subst(env, "PICO_FS_END")
                        [] x = "__RAM_LENGTH__" -> linkerscript_cmd.ram_length]]
    /\ pc' = "built"
    /\ UNCHANGED <<manifest, board, ram_size, upload_protocol, cpp_defines, env,
                   linkerscript_cmd, depends, out, exit_code, calls,
                   expression, result>>

Next ==
    \/ ConfigureUsbFlags
    \/ PrepareLinkerscriptCmd
    \/ SelectLinkerScript
    \/ GenerateLinkerScript

Spec == Init /\ [][Next]_vars

\* ------------------------------------------- the parser called on its own

InitParse ==
    /\ pc = "parse_call"
    /\ expression \in ParseInputs
    /\ manifest = BaseBoard(2097152, 270336)
    /\ board = manifest
    /\ ram_size = manifest["upload.maximum_ram_size"]
    /\ upload_protocol = "picotool"
    /\ cpp_defines = ScriptDefines
    /\ env = InitialEnv
    /\ linkerscript_cmd = NoCmd
    /\ depends = FALSE
    /\ ldfile = NoFile
    /\ out = <<>>
    /\ exit_code = 0
    /\ calls = 0
    /\ result = NoResult

\* convert_size_expression_to_int(expression)
ConvertCall ==
    /\ pc = "parse_call"
    /\ \E r \in {convert_size_expression_to_int(expression)} :
           /\ result' = r
           /\ out' = out \o r.wrote
           /\ pc' = IF r.kind = "return" THEN "parse_returned" ELSE "parse_raised"
    /\ UNCHANGED <<manifest, board, ram_size, upload_protocol, cpp_defines, env,
                   linkerscript_cmd, depends, ldfile, exit_code, calls, expression>>

NextParse == ConvertCall

SpecParse == InitParse /\ [][NextParse]_vars

\* ------------------------------ the calculator called again in one build

\* a further call of populate_sketch_partition_info after the script's own;
\* the caller either leaves the board as the last call left it or first
\* puts the loaded upload.maximum_size back
PopulateAgain ==
    /\ pc = "done"
    /\ calls >= 1
    /\ calls < MaxCalls
    /\ \E restore \in BOOLEAN :
        PopulateCall(IF restore
                     THEN Put(board, "upload.maximum_size",
                              manifest["upload.maximum_size"])
                     ELSE board)
    /\ UNCHANGED <<manifest, ram_size, upload_protocol, cpp_defines,
                   linkerscript_cmd, ldfile>>

NextRepeat ==
    \/ Next
    \/ PopulateAgain

SpecRepeat == Init /\ [][NextRepeat]_vars
\* ----------------------------------------------------- reading the state

PicoKeys == {"PICO_FLASH_LENGTH", "PICO_EEPROM_START", "PICO_FS_START", "PICO_FS_END"}

SummaryTexts == {"flash_size_mb", "sketch_size_mb", "filesystem_size_mb"}

\* the script has reached its end, or has been ended
ScriptEnded == pc \in {"done", "built", "fatal", "crashed"}

\* populate_sketch_partition_info was called and returned
Success == pc \in {"done", "built"} /\ calls >= 1

\* the flash size the board was loaded with
LoadedFlash == manifest["upload.maximum_size"]

\* the unit suffixes of the specification, in every letter case
SpecSuffixes ==
    { <<>>, <<"B">>, <<"b">>, <<"K">>, <<"k">>, <<"M">>, <<"m">>,
      <<"K", "B">>, <<"K", "b">>, <<"k", "B">>, <<"k", "b">>,
      <<"M", "B">>, <<"M", "b">>, <<"m", "B">>, <<"m", "b">> }

SpecMultiplier(suffix) ==
    IF suffix = <<>> \/ suffix[1] \in {"B", "b"} THEN 1
    ELSE IF suffix[1] \in {"K", "k"} THEN 1024
    ELSE 1048576

\* digits with at most one decimal point and at least one digit
LooseNumber(t) ==
    /\ \A i \in 1..Len(t) : t[i] \in Digits \cup {"."}
    /\ \E i \in 1..Len(t) : t[i] \in Digits
    /\ \A i, j \in 1..Len(t) : (t[i] = "." /\ t[j] = ".") => i = j

\* an expression some reading of the specification's pattern accepts
SpecAccepts(s) ==
    \E k \in 0..Len(s) :
        LooseNumber(SubSeq(s, 1, k)) /\ SubSeq(s, k + 1, Len(s)) \in SpecSuffixes

\* an integer, or an integer part (possibly empty) with a fractional part
AllDigits(t) == \A i \in 1..Len(t) : t[i] \in Digits

\* the value the specification gives digits ip "." fp with a suffix
SpecValue(ip, fp, suffix) ==
    ((DigitsValue(ip) * Pow10(Len(fp)) + DigitsValue(fp)) * SpecMultiplier(suffix))
        \div Pow10(Len(fp))

LowerChar(c) == CASE c = "M" -> "m" [] c = "K" -> "k" [] c = "B" -> "b" [] OTHER -> c

UpperChar(c) == CASE c = "m" -> "M" [] c = "k" -> "K" [] c = "b" -> "B" [] OTHER -> c

LowerCase(s) == [i \in 1..Len(s) |-> LowerChar(s[i])]

UpperCase(s) == [i \in 1..Len(s) |-> UpperChar(s[i])]

\* -------------------------------------------------------------------- C1

\* C1: for every expression that does not match the accepted pattern (a
\* decimal number followed by one of "", B, K, KB, M, MB in any case) the
\* parser does not raise: it writes a diagnostic and returns 0.
C1_MalformedReturnsZero ==
    (pc \in {"parse_returned", "parse_raised"} /\ ~SpecAccepts(expression))
    => /\ pc = "parse_returned"
       /\ result.kind = "return"
       /\ result.value = 0
       /\ Len(out) = 1
       /\ out[1].stream = "stderr"

\* -------------------------------------------------------------------- C6

C2_FatalLeavesNoLayout ==
    (calls >= 1 /\ result.kind = "return"
        /\ LoadedFlash - 4096 - result.value <= 0)
    => /\ pc = "fatal"
       /\ exit_code # 0
       /\ Len(out) >= 1
       /\ out[Len(out)].stream = "stderr"
       /\ out[Len(out)].text = "filesystem_too_large"
       /\ PicoKeys \cap DOMAIN env = {}
       /\ board["upload.maximum_size"] = LoadedFlash
       /\ ~depends
       /\ ~ldfile.written

\* 2 MB of flash with a 2 MB filesystem
C2_Witness ==
    /\ pc = "fatal"
    /\ LoadedFlash = 2097152
    /\ expression = <<"2", "M", "B">>
    /\ exit_code = 255

\* -------------------------------------------------------------------- C3

\* C3: whenever the calculator ends in success, upload.maximum_size has been
\* overwritten with the loaded flash_size - 4096 - fs_bytes, PICO_FLASH_LENGTH
\* is that same value, and the value is strictly positive.
C3_SuccessSketchSize ==
    Success =>
        /\ board["upload.maximum_size"] = LoadedFlash - 4096 - result.value
        /\ "PICO_FLASH_LENGTH" \in DOMAIN env
        /\ env["PICO_FLASH_LENGTH"] = LoadedFlash - 4096 - result.value
        /\ board["upload.maximum_size"] > 0

\* 2 MB of flash with a 1 MB filesystem leaves 1044480 bytes
C3_Witness ==
    /\ pc = "done"
    /\ calls = 1
    /\ LoadedFlash = 2097152
    /\ result.value = 1048576
    /\ board["upload.maximum_size"] = 1044480

\* -------------------------------------------------------------------- C5

\* C5: for every flash_size and fs_bytes with flash_size - 4096 - fs_bytes > 0
\* the layout is published with fs_end - fs_start = fs_bytes and
\* eeprom_start = fs_end = 0x10000000 + flash_size - 4096.
C5_FilesystemRegion ==
    (calls >= 1 /\ result.kind = "return"
        /\ LoadedFlash - 4096 - result.value > 0)
    => /\ PicoKeys \subseteq DOMAIN env
       /\ env["PICO_FS_END"] - env["PICO_FS_START"] = result.value
       /\ env["PICO_EEPROM_START"] = env["PICO_FS_END"]
       /\ env["PICO_EEPROM_START"] = 268435456 + LoadedFlash - 4096

\* a fractional size, 1.5MB, in 16 MB of flash
C5_Witness ==
    /\ Success
    /\ LoadedFlash = 16777216
    /\ expression = <<"1", ".", "5", "M", "B">>
    /\ env["PICO_FS_END"] - env["PICO_FS_START"] = 1572864

\* ------------------------------------------------------------------- C10

\* C10: whenever the calculator ends in success the sketch region and the
\* filesystem region are adjacent, do not overlap and lie inside flash:
\* fs_start = 0x10000000 + flash_length and 0x10000000 < fs_start <= fs_end
\* = eeprom_start = 0x10000000 + flash_size - 4096 < 0x10000000 + flash_size,
\* for well-formed and malformed size expressions alike.
C10_RegionsInsideFlash ==
    Success =>
        /\ PicoKeys \subseteq DOMAIN env
        /\ env["PICO_FS_START"] = 268435456 + env["PICO_FLASH_LENGTH"]
        /\ 268435456 < env["PICO_FS_START"]
        /\ env["PICO_FS_START"] <= env["PICO_FS_END"]
        /\ env["PICO_FS_END"] = env["PICO_EEPROM_START"]
        /\ env["PICO_EEPROM_START"] = 268435456 + LoadedFlash - 4096
        /\ env["PICO_EEPROM_START"] < 268435456 + LoadedFlash

\* a malformed expression, read as 0, with a successful layout
C10_Witness ==
    /\ Success
    /\ expression = <<"g", "a", "r", "b", "a", "g", "e">>
    /\ Len(out) >= 1
    /\ out[1].text = "could_not_parse"
    /\ env["PICO_FS_START"] = env["PICO_FS_END"]
\* -------------------------------------------------------------------- C7

\* C7 as stated: in every build the calculator runs exactly once, before
\* the generation step, which never executes with a PICO_... value unset,
\* with or without a custom linker script.
C7_RunsOnceInEveryBuild ==
    /\ ScriptEnded => calls = 1
    /\ ldfile.written => (calls = 1 /\ PicoKeys \subseteq DOMAIN env)

\* C7 amended: without a custom linker script (build.ldscript absent or
\* empty) the calculator runs exactly once, before the generation step, and
\* the generation step never executes with a PICO_... value unset; with a
\* custom linker script the calculator does not run, the four values stay
\* unset, and the generation step is not made a dependency and never executes.
C7_RunsOnceWithoutCustomScript ==
    /\ calls <= 1
    /\ ScriptEnded =>
        calls = (IF Get(manifest, "build.ldscript", "") = "" THEN 1 ELSE 0)
    /\ ldfile.written =>
        /\ calls = 1
        /\ PicoKeys \subseteq DOMAIN env
        /\ \A x \in {"__FLASH_LENGTH__", "__EEPROM_START__", "__FS_START__",
                     "__FS_END__"} : Len(ldfile.subs[x]) >= 1
    /\ Get(manifest, "build.ldscript", "") # "" =>
        /\ calls = 0
        /\ ~depends
        /\ ~ldfile.written
        /\ PicoKeys \cap DOMAIN env = {}

\* the generation step has run after the calculator: 2 MB flash, no
\* filesystem, flash length 2093056
C7_Witness ==
    /\ pc = "built"
    /\ ldfile.written
    /\ calls = 1
    /\ ldfile.subs["__FLASH_LENGTH__"] = <<"2", "0", "9", "3", "0", "5", "6">>

\* -------------------------------------------------------------------- C8

\* C8: the value substituted for __RAM_LENGTH__ is floor(R / 1024) followed
\* by "k", R being the board's upload.maximum_ram_size once USB has been
\* configured, for every USB mode and upload protocol, the picodebug
\* override to 240 * 1024 included.
C8_RamLengthFromBoard ==
    /\ linkerscript_cmd.defined =>
        linkerscript_cmd.ram_length
            = FormatD(board["upload.maximum_ram_size"] \div 1024) \o <<"k">>
    /\ ldfile.written =>
        ldfile.subs["__RAM_LENGTH__"]
            = FormatD(board["upload.maximum_ram_size"] \div 1024) \o <<"k">>
    /\ (pc # "start" /\ upload_protocol = "picodebug"
            /\ "PIO_FRAMEWORK_ARDUINO_NO_USB" \notin cpp_defines)
        => board["upload.maximum_ram_size"] = 240 * 1024

\* picodebug with the default USB stack: 240k reaches the linker script
C8_Witness ==
    /\ ldfile.written
    /\ upload_protocol = "picodebug"
    /\ manifest["upload.maximum_ram_size"] = 270336
    /\ board["upload.maximum_ram_size"] = 245760
    /\ ldfile.subs["__RAM_LENGTH__"] = <<"2", "4", "0", "k">>

\* -------------------------------------------------------------------- C9

\* C9 as stated: the summary (flash, sketch and filesystem size in MB) is
\* emitted on the success path only: a run that ends fatal prints no summary
\* before the fatal error.
C9_SummaryOnSuccessOnly ==
    /\ pc = "fatal" => \A i \in 1..Len(out) : out[i].text \notin SummaryTexts
    /\ Success => \E i \in 1..Len(out) : out[i].text \in SummaryTexts

\* C9 amended: the summary is emitted before the validation, in every run
\* in which the parser returns: a run that ends fatal prints the three
\* summary lines and then the fatal error; only the closing line that lists
\* the computed offsets is emitted on the success path only.
C9_SummaryBeforeValidation ==
    /\ (pc = "fatal" \/ Success) =>
        /\ Len(out) >= 4
        /\ out[Len(out) - 3].text = "flash_size_mb"
        /\ out[Len(out) - 2].text = "sketch_size_mb"
        /\ out[Len(out) - 1].text = "filesystem_size_mb"
        /\ \A i \in 1..3 : out[Len(out) - i].stream = "stdout"
    /\ pc = "fatal" =>
        /\ out[Len(out)].text = "filesystem_too_large"
        /\ out[Len(out)].stream = "stderr"
        /\ \A i \in 1..Len(out) : out[i].text # "layout"
    /\ Success =>
        /\ out[Len(out)].text = "layout"
        /\ \A i \in 1..Len(out) : out[i].text # "filesystem_too_large"

\* a fatal run that has printed the summary: 2 MB flash, 16mb filesystem
C9_Witness ==
    /\ pc = "fatal"
    /\ Len(out) = 4
    /\ out[1].text = "flash_size_mb"
    /\ out[1].args = <<2097152>>
    /\ out[3].args = <<16777216>>
    /\ out[4].text = "filesystem_too_large"

\* -------------------------------------------------------------------- C4

\* the calls of the calculator that got past the parser, by the position
\* of their first printed line
RunStarts == {i \in 1..Len(out) : out[i].text = "flash_size_mb"}

\* what a call printed: flash size read, sketch size, filesystem size, and
\* the layout or the fatal error
RunOutput(i) == SubSeq(out, i, i + 3)

IsLayout(e) == e.text = "layout"

Layouts == SelectSeq(out, IsLayout)

\* C4 as stated: a second run of the calculator in the same build, with the
\* same filesystem-size setting, publishes the same sketch_max_size,
\* flash_length, eeprom_start, fs_start and fs_end as the first run.
C4_SecondRunSameLayout ==
    calls >= 2 =>
        /\ Len(Layouts) = calls
        /\ \A i \in 1..Len(Layouts) : Layouts[i].args = Layouts[1].args

\* C4 amended: two runs that read the same upload.maximum_size and the same
\* filesystem-size setting publish identical values; but a successful run
\* overwrites upload.maximum_size with its sketch_max_size, so a second run
\* in the same build that does not first restore it reads a flash size
\* smaller by 4096 + fs_bytes and publishes a sketch_max_size smaller by
\* that amount again (or ends fatal).
C4_SameInputsSameLayout ==
    /\ \A i, j \in RunStarts :
        out[i].args = out[j].args => RunOutput(i) = RunOutput(j)
    /\ \A i, j \in RunStarts :
        (i < j /\ out[j].args = out[i + 1].args) =>
            /\ out[j].args[1] = out[i].args[1] - 4096 - out[i + 2].args[1]
            /\ out[j + 1].args[1] = out[i + 1].args[1] - 4096 - out[i + 2].args[1]
            /\ RunOutput(j) # RunOutput(i)
    /\ (pc = "done" /\ calls >= 1) =>
        /\ Len(Layouts) >= 1
        /\ board["upload.maximum_size"] = Layouts[Len(Layouts)].args[1]
        /\ \E i \in RunStarts :
            /\ i + 3 = Len(out)
            /\ board["upload.maximum_size"] = out[i].args[1] - 4096 - out[i + 2].args[1]

\* 16 MB flash, 1 MB filesystem, second run on the board the first run left:
\* the sketch sizes are 15724544 and then 14671872
C4_Witness ==
    /\ calls = 2
    /\ Len(Layouts) = 2
    /\ Layouts[1].args[1] = 15724544
    /\ Layouts[2].args[1] = 14671872
    /\ board["upload.maximum_size"] = 14671872
====
